---- MODULE Spec2Model ----
(***************************************************************************)
(* Model of the property synthesizer of Wrapping/vtkParseProperties.c.     *)
(*                                                                         *)
(* vtkParseProperties_Create turns the method list of one class into a     *)
(* list of properties and two per-method arrays (MethodTypes,              *)
(* MethodProperties).  The model runs that function as a state machine:    *)
(* one step per extracted method, one step per seeded property, one step   *)
(* per scan of findAllMatches.                                             *)
(*                                                                         *)
(* Representation.                                                         *)
(*   - A C string is a sequence of one-character strings; reading the      *)
(*     terminating NUL gives NUL.  A NULL char pointer is NULL.            *)
(*   - A type code is a record [base, ind, const, static] standing for     *)
(*     the bit groups of vtkParseType.h (base type, indirection,           *)
(*     qualifiers).                                                        *)
(*   - A method bitfield is the set of the VTK_METHOD_* bits it holds:     *)
(*     0 is {}, a single bit is a singleton, | is \cup.                    *)
(*   - Method positions are 1-based (C index + 1); property ids are        *)
(*     0-based as in the C arrays, -1 meaning "no property".               *)
(***************************************************************************)
EXTENDS Integers, Sequences, FiniteSets, TLC

(***************************************************************************)
(* C strings                                                               *)
(***************************************************************************)
NUL == ""
NULL == <<"(null)">>

Upper == {"A","B","C","D","E","F","G","H","I","J","K","L","M",
          "N","O","P","Q","R","S","T","U","V","W","X","Y","Z"}
Digit == {"0","1","2","3","4","5","6","7","8","9"}

isupper(c) == c \in Upper
isdigit(c) == c \in Digit

strlen(s) == Len(s)

\* s[k] of C (0-based); the byte at strlen(s) is the terminator
Ch(s, k) == IF k >= 0 /\ k < Len(s) THEN s[k + 1] ELSE NUL

\* &s[k]
StrFrom(s, k) == IF k >= Len(s) THEN << >> ELSE SubSeq(s, k + 1, Len(s))

\* strncmp(a, b, n) == 0: the first n bytes agree, up to and including the
\* first terminator
strncmpEq(a, b, n) ==
  \A k \in 0..(n - 1) :
     (\A m \in 0..(k - 1) : Ch(a, m) # NUL) => Ch(a, k) = Ch(b, k)

\* strcmp(a, b) == 0
strcmpEq(a, b) == a = b

sSet       == <<"S","e","t">>
sGet       == <<"G","e","t">>
sAdd       == <<"A","d","d">>
sRemove    == <<"R","e","m","o","v","e">>
sAll       == <<"A","l","l">>
sNth       == <<"N","t","h">>
sNumberOf  == <<"N","u","m","b","e","r","O","f">>
sOn        == <<"O","n">>
sOff       == <<"O","f","f">>
sTo        == <<"T","o">>
sAsString  == <<"A","s","S","t","r","i","n","g">>
sMinValue  == <<"M","i","n","V","a","l","u","e">>
sMaxValue  == <<"M","a","x","V","a","l","u","e">>

\* the bytes a[k..] start with the literal lit (each byte compared in turn)
HasAt(a, k, lit) == \A m \in 1..Len(lit) : Ch(a, k + m - 1) = lit[m]

(***************************************************************************)
(* Type codes (vtkParseType.h)                                             *)
(***************************************************************************)
Ty(b, i) == [base |-> b, ind |-> i, const |-> FALSE, static |-> FALSE]

VTK_PARSE_VOID          == Ty("void", "none")
VTK_PARSE_INT           == Ty("int", "none")
VTK_PARSE_UNSIGNED_INT  == Ty("unsigned int", "none")
VTK_PARSE_UNSIGNED_CHAR == Ty("unsigned char", "none")
VTK_PARSE_BOOL          == Ty("bool", "none")
VTK_PARSE_ID_TYPE       == Ty("idtype", "none")
TypeZero                == Ty("0", "none")

vtkParse_BaseType(t)        == t.base
vtkParse_TypeIndirection(t) == t.ind
vtkParse_TypeIsIndirect(t)  == t.ind # "none"
vtkParse_TypeIsPointer(t)   == t.ind = "pointer"
vtkParse_TypeIsConst(t)     == t.const
vtkParse_TypeHasQualifier(t) == t.const \/ t.static
\* t & VTK_PARSE_UNQUALIFIED_TYPE
Unqualified(t) == [t EXCEPT !.const = FALSE, !.static = FALSE]
\* (t & ~VTK_PARSE_INDIRECT) | ind
WithIndirection(t, i) == [t EXCEPT !.ind = i]

\* "return type is void": base type void and no indirection
IsVoidType(t) == vtkParse_BaseType(t) = "void" /\ ~vtkParse_TypeIsIndirect(t)

(***************************************************************************)
(* Name predicates                                                         *)
(***************************************************************************)
isSetMethod(name) ==
  name # NULL /\ HasAt(name, 0, sSet) /\ isupper(Ch(name, 3))

isSetNthMethod(name) ==
  isSetMethod(name) /\ HasAt(name, 3, sNth) /\ isupper(Ch(name, 6))

isSetNumberOfMethod(name) ==
  isSetMethod(name) /\ HasAt(name, 3, sNumberOf) /\ isupper(Ch(name, 11))
    /\ Ch(name, strlen(name) - 1) = "s"

isGetMethod(name) ==
  name # NULL /\ HasAt(name, 0, sGet) /\ isupper(Ch(name, 3))

isGetNthMethod(name) ==
  isGetMethod(name) /\ HasAt(name, 3, sNth) /\ isupper(Ch(name, 6))

isGetNumberOfMethod(name) ==
  isGetMethod(name) /\ HasAt(name, 3, sNumberOf) /\ isupper(Ch(name, 11))
    /\ Ch(name, strlen(name) - 1) = "s"

isAddMethod(name) ==
  name # NULL /\ HasAt(name, 0, sAdd) /\ isupper(Ch(name, 3))

isRemoveMethod(name) ==
  name # NULL /\ HasAt(name, 0, sRemove) /\ isupper(Ch(name, 6))

isRemoveAllMethod(name) ==
  isRemoveMethod(name) /\ HasAt(name, 6, sAll) /\ isupper(Ch(name, 9))
    /\ Ch(name, strlen(name) - 1) = "s"

isBooleanMethod(name) ==
  /\ name # NULL
  /\ LET n == strlen(name) IN
       \/ (n > 2 /\ HasAt(name, n - 2, sOn))
       \/ (n > 3 /\ HasAt(name, n - 3, sOff))

isEnumeratedMethod(name) ==
  /\ isSetMethod(name)
  /\ LET n == strlen(name) - 3 IN
       \E i \in 3..(n - 1) :
          /\ HasAt(name, i, sTo)
          /\ (isupper(Ch(name, i + 2)) \/ isdigit(Ch(name, i + 2)))

isAsStringMethod(name) ==
  /\ isGetMethod(name)
  /\ LET n == strlen(name) IN n > 11 /\ HasAt(name, n - 8, sAsString)

isGetMinValueMethod(name) ==
  /\ isGetMethod(name)
  /\ LET n == strlen(name) IN n > 11 /\ strcmpEq(sMinValue, StrFrom(name, n - 8))

isGetMaxValueMethod(name) ==
  /\ isGetMethod(name)
  /\ LET n == strlen(name) IN n > 11 /\ strcmpEq(sMaxValue, StrFrom(name, n - 8))

(***************************************************************************)
(* methodCategory: the category bit of a method (0 is {})                  *)
(***************************************************************************)
methodCategory(meth, shortForm) ==
  LET name == meth.Name IN
  IF isSetMethod(name) THEN
    IF meth.IsEnumerated THEN {"ENUM_SET"}
    ELSE IF meth.IsIndexed THEN
      (IF isSetNthMethod(name) THEN {"NTH_SET"} ELSE {"INDEX_SET"})
    ELSE IF meth.IsMultiValue THEN {"MULTI_SET"}
    ELSE IF shortForm /\ isSetNumberOfMethod(name) THEN {"SET_NUM"}
    ELSE {"BASIC_SET"}
  ELSE IF meth.IsBoolean THEN
    (IF Ch(name, strlen(name) - 1) = "n" THEN {"BOOL_ON"} ELSE {"BOOL_OFF"})
  ELSE IF isGetMethod(name) THEN
    IF shortForm /\ isGetMinValueMethod(name) THEN {"MIN_GET"}
    ELSE IF shortForm /\ isGetMaxValueMethod(name) THEN {"MAX_GET"}
    ELSE IF shortForm /\ isAsStringMethod(name) THEN {"STRING_GET"}
    ELSE IF meth.IsIndexed /\ meth.Count > 0 /\ ~meth.IsHinted THEN
      (IF isGetNthMethod(name) THEN {"NTH_RHS_GET"} ELSE {"INDEX_RHS_GET"})
    ELSE IF meth.IsIndexed THEN
      (IF isGetNthMethod(name) THEN {"NTH_GET"} ELSE {"INDEX_GET"})
    ELSE IF meth.IsMultiValue THEN {"MULTI_GET"}
    ELSE IF meth.Count > 0 /\ ~meth.IsHinted THEN {"RHS_GET"}
    ELSE IF shortForm /\ isGetNumberOfMethod(name) THEN {"GET_NUM"}
    ELSE {"BASIC_GET"}
  ELSE IF isRemoveMethod(name) THEN
    IF isRemoveAllMethod(name) THEN {"REMOVEALL"}
    ELSE IF meth.IsIndexed THEN {"INDEX_REM"}
    ELSE {"BASIC_REM"}
  ELSE IF isAddMethod(name) THEN
    IF meth.IsIndexed THEN {"INDEX_ADD"}
    ELSE IF meth.IsMultiValue THEN {"MULTI_ADD"}
    ELSE {"BASIC_ADD"}
  ELSE {}

(***************************************************************************)
(* nameWithoutPrefix and isValidSuffix                                     *)
(***************************************************************************)
\* nameWithoutPrefix without the Nth cases: only the first word is removed
nameWithoutPrefixKeepsNth(name) ==
  IF isGetMethod(name) \/ isSetMethod(name) \/ isAddMethod(name)
    THEN StrFrom(name, 3)
  ELSE IF isRemoveAllMethod(name) THEN StrFrom(name, 9)
  ELSE IF isRemoveMethod(name) THEN StrFrom(name, 6)
  ELSE name

nameWithoutPrefix(name) ==
  IF isGetNthMethod(name) \/ isSetNthMethod(name) THEN StrFrom(name, 6)
  ELSE IF isGetMethod(name) \/ isSetMethod(name) \/ isAddMethod(name)
    THEN StrFrom(name, 3)
  ELSE IF isRemoveAllMethod(name) THEN StrFrom(name, 9)
  ELSE IF isRemoveMethod(name) THEN StrFrom(name, 6)
  ELSE name

\* isValidSuffix with no test of the text after the property name
isValidSuffixAnyTail(methName, propertyName, suffix) == TRUE

isValidSuffix(methName, propertyName, suffix) ==
  IF \/ (HasAt(suffix, 0, sOn) /\ Ch(suffix, 2) = NUL)
     \/ (HasAt(suffix, 0, sOff) /\ Ch(suffix, 3) = NUL)
    THEN TRUE
  ELSE IF /\ isSetMethod(methName)
          /\ HasAt(suffix, 0, sTo)
          /\ (isupper(Ch(suffix, 2)) \/ isdigit(Ch(suffix, 2)))
    THEN TRUE
  ELSE IF /\ isGetMethod(methName)
          /\ \/ /\ HasAt(suffix, 0, <<"A","s">>)
                /\ (isupper(Ch(suffix, 2)) \/ isdigit(Ch(suffix, 2)))
             \/ /\ (HasAt(suffix, 0, <<"M","a","x">>)
                      \/ HasAt(suffix, 0, <<"M","i","n">>))
                /\ HasAt(suffix, 3, <<"V","a","l","u","e">>)
                /\ Ch(suffix, 8) = NUL
    THEN TRUE
  ELSE IF isRemoveAllMethod(methName)
    THEN Ch(suffix, 0) = "s" /\ Ch(suffix, 1) = NUL
  ELSE IF isGetNumberOfMethod(methName) \/ isSetNumberOfMethod(methName)
    THEN IF strncmpEq(propertyName, sNumberOf, 8)
           THEN Ch(suffix, 0) = NUL
           ELSE Ch(suffix, 0) = "s" /\ Ch(suffix, 1) = NUL
  ELSE Ch(suffix, 0) = NUL

(***************************************************************************)
(* getMethodAttributes: FunctionInfo -> MethodAttributes.                  *)
(* The result is the attrs struct as the function leaves it; HasProperty   *)
(* is also the function's return value.                                    *)
(***************************************************************************)
NoClass == "(null)"

NumberOfArguments(func) == Len(func.ArgTypes)

\* the loop "for (i = 0; i < n; i++) if (ArgTypes[i] != tmptype) allSame = 0"
AllSame(func) ==
  \A k \in 1..NumberOfArguments(func) : func.ArgTypes[k] = func.ArgTypes[1]

\* IndexedOf with the test for two arguments of one type applied to every
\* method, SetNumberOf methods included
IndexedOfUnlessAllSame(func) ==
  IF /\ NumberOfArguments(func) > 0
     /\ vtkParse_BaseType(func.ArgTypes[1]) \in {"int", "idtype"}
     /\ ~vtkParse_TypeIsIndirect(func.ArgTypes[1])
  THEN
    IF ~IsVoidType(func.ReturnType) /\ NumberOfArguments(func) = 1 THEN TRUE
    ELSE IsVoidType(func.ReturnType) /\ NumberOfArguments(func) = 2
           /\ ~AllSame(func)
  ELSE FALSE

\* lines 506-545: is the first argument an index?
IndexedOf(func) ==
  IF /\ NumberOfArguments(func) > 0
     /\ vtkParse_BaseType(func.ArgTypes[1]) \in {"int", "idtype"}
     /\ ~vtkParse_TypeIsIndirect(func.ArgTypes[1])
  THEN
    LET afterSet ==
          IF IsVoidType(func.ReturnType) /\ NumberOfArguments(func) = 2
          THEN (IF ~isSetNumberOfMethod(func.Name) THEN ~AllSame(func) ELSE TRUE)
          ELSE FALSE
    IN IF ~IsVoidType(func.ReturnType) /\ NumberOfArguments(func) = 1
       THEN TRUE ELSE afterSet
  ELSE FALSE

AttrsInit(func) ==
  [Name |-> func.Name, HasProperty |-> FALSE, Type |-> TypeZero, Count |-> 0,
   ClassName |-> NoClass,
   IsPublic |-> func.IsPublic, IsProtected |-> func.IsProtected,
   IsLegacy |-> func.IsLegacy,
   IsStatic |-> func.ReturnType.static,
   IsRepeat |-> FALSE, IsMultiValue |-> FALSE, IsHinted |-> FALSE,
   IsIndexed |-> FALSE, IsEnumerated |-> FALSE, IsBoolean |-> FALSE]

getMethodAttributes(func) ==
  LET a0 == AttrsInit(func)
      n  == NumberOfArguments(func)
  IN
  IF func.Name = NULL \/ func.ArrayFailure \/ func.IsOperator THEN a0
  ELSE
  LET indexed == IndexedOf(func)
      ix == IF indexed THEN 1 ELSE 0
      a1 == [a0 EXCEPT !.IsIndexed = indexed]
      void == IsVoidType(func.ReturnType)
      \* the value argument, func->Arg...[indexed]
      argT == func.ArgTypes[ix + 1]
      argN == func.ArgCounts[ix + 1]
      argC == func.ArgClasses[ix + 1]
      fromArg == [a1 EXCEPT !.HasProperty = TRUE, !.Type = argT,
                            !.Count = argN, !.ClassName = argC]
      tmptype == func.ArgTypes[1]
      multi == [a1 EXCEPT !.HasProperty = TRUE, !.Type = tmptype,
                          !.Count = n, !.IsMultiValue = TRUE]
      \* lines 667-696: void return, no arguments
      noArgs ==
        IF void /\ n = 0 THEN
          LET a2 == [a1 EXCEPT !.Type = VTK_PARSE_VOID] IN
          IF isBooleanMethod(func.Name)
            THEN [a2 EXCEPT !.HasProperty = TRUE, !.IsBoolean = TRUE]
          ELSE IF isEnumeratedMethod(func.Name)
            THEN [a2 EXCEPT !.HasProperty = TRUE, !.IsEnumerated = TRUE]
          ELSE IF isRemoveAllMethod(func.Name)
            THEN [a2 EXCEPT !.HasProperty = TRUE]
          ELSE a2
        ELSE a1
      \* lines 607-665: several arguments of one type
      multiValue ==
        IF n > 1 /\ ~indexed /\ AllSame(func) THEN
          IF /\ isSetMethod(func.Name) /\ ~vtkParse_TypeIsIndirect(tmptype)
             /\ void
            THEN multi
          ELSE IF /\ isGetMethod(func.Name)
                  /\ vtkParse_TypeIndirection(tmptype) = "ref"
                  /\ ~vtkParse_TypeIsConst(tmptype)
                  /\ void
            THEN multi
          ELSE IF /\ isAddMethod(func.Name) /\ ~vtkParse_TypeIsIndirect(tmptype)
                  /\ vtkParse_BaseType(func.ReturnType) \in {"void", "int", "idtype"}
                  /\ ~vtkParse_TypeIsIndirect(func.ReturnType)
            THEN multi
          ELSE noArgs
        ELSE noArgs
      \* lines 565-605: void return and one value argument
      byArgument ==
        IF void /\ n = 1 + ix THEN
          IF isSetMethod(func.Name) THEN fromArg
          ELSE IF /\ isGetMethod(func.Name)
                  /\ argN > 0
                  /\ vtkParse_TypeIsIndirect(argT)
                  /\ ~vtkParse_TypeIsConst(argT)
            THEN fromArg
          ELSE IF /\ (isAddMethod(func.Name) \/ isRemoveMethod(func.Name))
                  /\ vtkParse_BaseType(argT) = "object"
                  /\ vtkParse_TypeIndirection(argT) = "pointer"
            THEN fromArg
          ELSE multiValue
        ELSE multiValue
  IN
  \* lines 547-563: non-void return and no argument but the index
  IF ~void /\ n = ix /\ isGetMethod(func.Name)
    THEN [a1 EXCEPT !.HasProperty = TRUE, !.Type = func.ReturnType,
                    !.Count = IF func.HaveHint THEN func.HintSize ELSE 0,
                    !.IsHinted = func.HaveHint,
                    !.ClassName = func.ReturnClass]
    ELSE byArgument

(***************************************************************************)
(* methodMatchesProperty.  The result is [match, longMatch, exit]: the     *)
(* return value, the out-parameter, and the source line of the return      *)
(* statement that was taken.                                               *)
(***************************************************************************)
\* BitfieldFor as if an Add member were always present
BitfieldForWithAdd(property, meth) ==
  (IF meth.IsPublic THEN property.PublicMethods
   ELSE IF meth.IsProtected THEN property.ProtectedMethods
   ELSE property.PrivateMethods) \cup {"BASIC_ADD"}

\* the bitfield of the property for the access level of the method
BitfieldFor(property, meth) ==
  IF meth.IsPublic THEN property.PublicMethods
  ELSE IF meth.IsProtected THEN property.ProtectedMethods
  ELSE property.PrivateMethods

\* lines 738-775
LongMatchOf(propertyName, methName) ==
  LET n == strlen(propertyName) IN
  IF isGetNumberOfMethod(methName) \/ isSetNumberOfMethod(methName)
    THEN strncmpEq(propertyName, sNumberOf, 8) /\ isupper(Ch(propertyName, 8))
  ELSE IF isGetMinValueMethod(methName)
    THEN n >= 8 /\ strcmpEq(StrFrom(propertyName, n - 8), sMinValue)
  ELSE IF isGetMaxValueMethod(methName)
    THEN n >= 8 /\ strcmpEq(StrFrom(propertyName, n - 8), sMaxValue)
  ELSE IF isAsStringMethod(methName)
    THEN n >= 8 /\ strcmpEq(StrFrom(propertyName, n - 8), sAsString)
  ELSE FALSE

\* MatchName without the NumberOf case: the name after Set or Get
MatchNameAfterPrefix(propertyName, methName) == nameWithoutPrefix(methName)

\* lines 731, 742-753: the part of the method name compared with the property
MatchName(propertyName, methName) ==
  IF /\ (isGetNumberOfMethod(methName) \/ isSetNumberOfMethod(methName))
     /\ ~(strncmpEq(propertyName, sNumberOf, 8) /\ isupper(Ch(propertyName, 8)))
    THEN StrFrom(methName, 11)
    ELSE nameWithoutPrefix(methName)

\* lines 826-838: remove "ref"
RemoveRef(t) ==
  IF vtkParse_TypeIndirection(t) = "ref" THEN WithIndirection(t, "none")
  ELSE IF vtkParse_TypeIndirection(t) = "pointer ref"
    THEN WithIndirection(t, "pointer")
  ELSE IF vtkParse_TypeIndirection(t) = "const pointer ref"
    THEN WithIndirection(t, "const pointer")
  ELSE t

\* Promote with bool allowed for enumerated and AsString methods as well
PromoteToBoolToo(meth, methType, propertyType) ==
  IF /\ \/ meth.IsBoolean
        \/ meth.IsEnumerated
        \/ /\ isAsStringMethod(meth.Name)
           /\ vtkParse_BaseType(methType) = "char"
           /\ vtkParse_TypeIndirection(methType) = "pointer"
     /\ ~vtkParse_TypeIsIndirect(propertyType)
     /\ propertyType \in {VTK_PARSE_INT, VTK_PARSE_UNSIGNED_INT,
                          VTK_PARSE_UNSIGNED_CHAR, VTK_PARSE_BOOL}
    THEN propertyType
    ELSE methType

\* lines 859-874: boolean, enumerated and AsString methods take the property type
Promote(meth, methType, propertyType) ==
  IF /\ \/ meth.IsBoolean
        \/ meth.IsEnumerated
        \/ /\ isAsStringMethod(meth.Name)
           /\ vtkParse_BaseType(methType) = "char"
           /\ vtkParse_TypeIndirection(methType) = "pointer"
     /\ ~vtkParse_TypeIsIndirect(propertyType)
     /\ \/ propertyType = VTK_PARSE_INT
        \/ propertyType = VTK_PARSE_UNSIGNED_INT
        \/ propertyType = VTK_PARSE_UNSIGNED_CHAR
        \/ (meth.IsBoolean /\ propertyType = VTK_PARSE_BOOL)
    THEN propertyType
    ELSE methType

\* lines 794-798: remove "const" and "static"
StripQualifiers(t) == IF vtkParse_TypeHasQualifier(t) THEN Unqualified(t) ELSE t

\* lines 842-852: a multi-value method refers to a pointer property
RaiseMultiValue(meth, t) ==
  IF meth.IsMultiValue
    THEN (IF vtkParse_TypeIndirection(t) = "pointer"
            THEN WithIndirection(t, "pointer pointer")
            ELSE WithIndirection(t, "pointer"))
    ELSE t

\* methType as it stands at the comparison of line 877
NormalizedMethType(meth, propertyType) ==
  Promote(meth, RaiseMultiValue(meth, RemoveRef(StripQualifiers(meth.Type))),
          propertyType)

methodMatchesProperty(property, meth) ==
  LET methodBitfield == BitfieldFor(property, meth)
      propertyName == property.Name
      longMatch == LongMatchOf(propertyName, meth.Name)
      name == MatchName(propertyName, meth.Name)
      n == strlen(propertyName)
      methSuffix == StrFrom(name, n)
      propertyType == property.Type
      t0 == StripQualifiers(meth.Type)
      t1 == RemoveRef(t0)
      \* lines 853-856
      multiOk == ~meth.IsMultiValue
                   \/ vtkParse_TypeIndirection(t1) \in {"pointer", "none"}
      methType == NormalizedMethType(meth, propertyType)
      No(line)  == [match |-> FALSE, longMatch |-> longMatch, exit |-> line]
      Yes(line) == [match |-> TRUE, longMatch |-> longMatch, exit |-> line]
  IN
  IF meth.Name = NULL \/ propertyName = NULL THEN
    [match |-> FALSE, longMatch |-> FALSE, exit |-> 735]
  ELSE IF ~strncmpEq(name, propertyName, n) THEN No(780)
  ELSE IF ~isValidSuffix(meth.Name, propertyName, methSuffix) THEN No(787)
  ELSE IF /\ isRemoveAllMethod(meth.Name)
          /\ t0 = VTK_PARSE_VOID
          /\ ~vtkParse_TypeIsIndirect(t0)
          /\ methodBitfield \cap {"BASIC_ADD", "MULTI_ADD"} # {}
    THEN Yes(806)
  ELSE IF /\ isGetNumberOfMethod(meth.Name)
          /\ (t0 = VTK_PARSE_INT \/ t0 = VTK_PARSE_ID_TYPE)
          /\ ~vtkParse_TypeIsIndirect(t0)
          /\ methodBitfield \cap {"INDEX_GET", "NTH_GET"} # {}
    THEN Yes(815)
  ELSE IF /\ isSetNumberOfMethod(meth.Name)
          /\ (t0 = VTK_PARSE_INT \/ t0 = VTK_PARSE_ID_TYPE)
          /\ ~vtkParse_TypeIsIndirect(t0)
          /\ methodBitfield \cap {"INDEX_SET", "NTH_SET"} # {}
    THEN Yes(823)
  ELSE IF ~multiOk THEN No(855)
  ELSE IF methType # propertyType \/ meth.Count # property.Count THEN No(879)
  ELSE IF /\ vtkParse_BaseType(methType) = "object"
          /\ \/ meth.IsMultiValue
             \/ ~vtkParse_TypeIsPointer(methType)
             \/ meth.Count # 0
             \/ meth.ClassName = NoClass
             \/ property.ClassName = NoClass
             \/ ~strcmpEq(meth.ClassName, property.ClassName)
    THEN No(890)
  ELSE Yes(895)

(***************************************************************************)
(* initializePropertyInfo                                                  *)
(***************************************************************************)
\* PropertyTypeOf with the multi-value cases left out: the indirection of
\* the method is kept as for a single-value method
PropertyTypeOfSingleValue(meth) ==
  LET type == IF meth.IsBoolean \/ meth.IsEnumerated
                THEN VTK_PARSE_INT ELSE meth.Type
      ind == vtkParse_TypeIndirection(type)
      base == Ty(vtkParse_BaseType(type), "none")
  IN
  IF ind \in {"pointer", "pointer ref"} THEN WithIndirection(base, "pointer")
  ELSE IF ind \in {"const pointer", "const pointer ref"}
    THEN WithIndirection(base, "const pointer")
  ELSE IF ind = "pointer pointer" THEN WithIndirection(base, "pointer pointer")
  ELSE base

\* lines 906-940: the type of the property seeded by meth
PropertyTypeOf(meth) ==
  LET type == IF meth.IsBoolean \/ meth.IsEnumerated
                THEN VTK_PARSE_INT ELSE meth.Type
      ind == vtkParse_TypeIndirection(type)
      base == Ty(vtkParse_BaseType(type), "none")
  IN
  IF \/ (~meth.IsMultiValue /\ ind \in {"pointer", "pointer ref"})
     \/ (meth.IsMultiValue /\ ind \in {"none", "ref"})
    THEN WithIndirection(base, "pointer")
  ELSE IF ~meth.IsMultiValue /\ ind \in {"const pointer", "const pointer ref"}
    THEN WithIndirection(base, "const pointer")
  ELSE IF ind = "pointer pointer" \/ (ind = "pointer" /\ meth.IsMultiValue)
    THEN WithIndirection(base, "pointer pointer")
  ELSE base

initializePropertyInfo(meth, methodBit) ==
  [Name |-> nameWithoutPrefix(meth.Name),
   Type |-> PropertyTypeOf(meth),
   ClassName |-> meth.ClassName,
   Count |-> meth.Count,
   IsStatic |-> meth.IsStatic,
   EnumConstantNames |-> << >>,
   PublicMethods    |-> IF meth.IsPublic THEN methodBit ELSE {},
   ProtectedMethods |-> IF ~meth.IsPublic /\ meth.IsProtected THEN methodBit ELSE {},
   PrivateMethods   |-> IF ~meth.IsPublic /\ ~meth.IsProtected THEN methodBit ELSE {},
   LegacyMethods    |-> IF meth.IsLegacy THEN methodBit ELSE {}]

(***************************************************************************)
(* searchForRepeatedMethods(properties, methods, j).                       *)
(* s is the program state; withProperties says whether the properties      *)
(* argument is non-null.  The loop returns at the first method i that is   *)
(* paired with method j and ordered against it.                            *)
(***************************************************************************)
\* lines 1086-1095: same name and basic structure
SameStructure(attrs, meth) ==
  /\ meth.Name # NULL
  /\ strcmpEq(attrs.Name, meth.Name)
  /\ vtkParse_TypeIndirection(attrs.Type) = vtkParse_TypeIndirection(meth.Type)
  /\ attrs.IsPublic = meth.IsPublic
  /\ attrs.IsProtected = meth.IsProtected
  /\ attrs.IsHinted = meth.IsHinted
  /\ attrs.IsMultiValue = meth.IsMultiValue
  /\ attrs.IsIndexed = meth.IsIndexed
  /\ attrs.IsEnumerated = meth.IsEnumerated
  /\ attrs.IsBoolean = meth.IsBoolean

\* lines 1102-1106 (a = attrs, b = meth) and lines 1118-1122 (a = meth, b = attrs)
IsWorseThan(a, b) ==
  \/ (vtkParse_BaseType(a.Type) = "float" /\ vtkParse_BaseType(b.Type) = "double")
  \/ (vtkParse_BaseType(a.Type) = vtkParse_BaseType(b.Type) /\ a.Count < b.Count)
  \/ (a.IsLegacy /\ ~b.IsLegacy)

Min(S) == CHOOSE x \in S : \A y \in S : x <= y

searchForRepeatedMethods(s, withProperties, j) ==
  LET attrs == s.methods[j]
      hits == {i \in 1..Len(s.methods) :
                 /\ SameStructure(attrs, s.methods[i])
                 /\ (IsWorseThan(attrs, s.methods[i])
                       \/ IsWorseThan(s.methods[i], attrs))}
  IN
  IF hits = {} THEN s
  ELSE
    LET i == Min(hits)
        \* "keep existing method": j is the repeat; else "keep this method"
        loser  == IF IsWorseThan(attrs, s.methods[i]) THEN j ELSE i
        winner == IF loser = j THEN i ELSE j
    IN
    [s EXCEPT
       !.methods[loser].IsRepeat = TRUE,
       !.MethodTypes = IF withProperties
                         THEN [@ EXCEPT ![loser] = s.MethodTypes[winner]] ELSE @,
       !.MethodProperties = IF withProperties
                         THEN [@ EXCEPT ![loser] = s.MethodProperties[winner]] ELSE @,
       !.hPairs = @ \cup {[loser |-> loser, winner |-> winner,
                           copied |-> withProperties]}]

(***************************************************************************)
(* findAllMatches: one execution of the body of the while loop, i.e. one   *)
(* scan "for (i = 0; i < n; i++)" over the methods.                        *)
(***************************************************************************)
\* lines 1034-1063: the name after "To" of an enumerated setter
WithEnumConstant(property, meth) ==
  LET m == strlen(property.Name) IN
  IF /\ meth.IsEnumerated
     /\ Ch(meth.Name, 3 + m) = "T" /\ Ch(meth.Name, 4 + m) = "o"
     /\ (isdigit(Ch(meth.Name, 5 + m)) \/ isupper(Ch(meth.Name, 5 + m)))
    THEN [property EXCEPT
            !.EnumConstantNames = Append(@, StrFrom(meth.Name, 5 + m))]
    ELSE property

\* NewPropertyId with the count taken one too far, as if the property had
\* been stored before its methods were recorded
NewPropertyIdAhead(s) == Len(s.Properties) + 1

\* properties->NumberOfProperties, the id of the property being built
\* (lines 1155 and 1162)
NewPropertyId(s) == Len(s.Properties)

\* PromoteStatic with the promotion left out
PromoteStaticNever(property, meth) == property

\* lines 1004-1008: if any method is static, the property is static
PromoteStatic(property, meth) ==
  [property EXCEPT !.IsStatic = @ \/ meth.IsStatic]

\* AcceptMethod with matchedMethods[i] left as it was
AcceptMethodLeftUnmatched(s, i, r) ==
  LET meth == s.methods[i]
      methodBit == methodCategory(meth, ~r.longMatch)
  IN
  [s EXCEPT !.foundNoMatches = FALSE,
            !.MethodTypes[i] = methodBit,
            !.MethodProperties[i] = NewPropertyId(s),
            !.hFolded = @ \cup {[method |-> i, property |-> NewPropertyId(s),
                                 longMatch |-> r.longMatch, exit |-> r.exit]}]

\* lines 1001-1032: the method at position i joins the property
AcceptMethod(s, i, r) ==
  LET meth == s.methods[i]
      methodBit == methodCategory(meth, ~r.longMatch)
      p0 == s.property
      p1 == PromoteStatic(p0, meth)
      p2 == IF meth.IsPublic THEN [p1 EXCEPT !.PublicMethods = @ \cup methodBit]
            ELSE IF meth.IsProtected
              THEN [p1 EXCEPT !.ProtectedMethods = @ \cup methodBit]
            ELSE [p1 EXCEPT !.PrivateMethods = @ \cup methodBit]
      p3 == IF meth.IsLegacy
              THEN [p2 EXCEPT !.LegacyMethods = @ \cup methodBit] ELSE p2
  IN
  [s EXCEPT !.matchedMethods[i] = TRUE,
            !.foundNoMatches = FALSE,
            !.MethodTypes[i] = methodBit,
            !.MethodProperties[i] = NewPropertyId(s),
            !.property = WithEnumConstant(p3, meth),
            !.hFolded = @ \cup {[method |-> i, property |-> NewPropertyId(s),
                                 longMatch |-> r.longMatch, exit |-> r.exit]}]

RECURSIVE ScanFrom(_, _)
ScanFrom(s, i) ==
  IF i > Len(s.methods) THEN s
  ELSE IF s.matchedMethods[i] THEN ScanFrom(s, i + 1)
  ELSE LET r == methodMatchesProperty(s.property, s.methods[i]) IN
       IF r.match THEN ScanFrom(AcceptMethod(s, i, r), i + 1)
       ELSE ScanFrom(s, i + 1)

\* findAllMatchesScan when the while loop is left after its first scan
findAllMatchesOnce(s) ==
  [ScanFrom([s EXCEPT !.scans = @ + 1], 1) EXCEPT !.foundNoMatches = TRUE]

findAllMatchesScan(s) ==
  ScanFrom([s EXCEPT !.foundNoMatches = TRUE, !.scans = @ + 1], 1)

(***************************************************************************)
(* addProperty, up to the call of findAllMatches (lines 1147-1161)         *)
(***************************************************************************)
NoProperty == [Name |-> NULL]

addPropertyBegin(s, i) ==
  LET meth == s.methods[i]
      category == methodCategory(meth, FALSE)
      s1 == [s EXCEPT !.matchedMethods[i] = TRUE,
                      !.MethodTypes[i] = category,
                      !.MethodProperties[i] = NewPropertyId(s),
                      !.hSeed = Append(@, i)]
      s2 == searchForRepeatedMethods(s1, TRUE, i)
  IN
  \* initializePropertyInfo reads no field of meth that the search writes
  [s2 EXCEPT !.property = initializePropertyInfo(meth, category),
             !.foundNoMatches = FALSE,
             !.scans = 0,
             !.i = i,
             !.pc = "find"]

\* line 1166, when the while loop of findAllMatches has ended
addPropertyEnd(s) ==
  [s EXCEPT !.Properties = Append(@, s.property),
            !.property = NoProperty,
            !.i = @ + 1,
            !.pc = "sweep"]

(***************************************************************************)
(* categorizeProperties: the five sweeps (lines 1193-1247)                 *)
(***************************************************************************)
NumberOfSweeps == 5

\* SweepTakes with the Get sweep run before the SetNumberOf sweep
SweepTakesGetSecond(sweep, meth) ==
  CASE sweep = 1 -> /\ isSetMethod(meth.Name)
                    /\ ~meth.IsEnumerated
                    /\ ~isSetNumberOfMethod(meth.Name)
    [] sweep = 3 -> isSetNumberOfMethod(meth.Name)
    [] sweep = 2 -> /\ isGetMethod(meth.Name)
                    /\ ~isAsStringMethod(meth.Name)
                    /\ ~isGetNumberOfMethod(meth.Name)
    [] sweep = 4 -> isGetNumberOfMethod(meth.Name)
    [] sweep = 5 -> isAddMethod(meth.Name)

SweepTakes(sweep, meth) ==
  CASE sweep = 1 -> /\ isSetMethod(meth.Name)
                    /\ ~meth.IsEnumerated
                    /\ ~isSetNumberOfMethod(meth.Name)
    [] sweep = 2 -> isSetNumberOfMethod(meth.Name)
    [] sweep = 3 -> /\ isGetMethod(meth.Name)
                    /\ ~isAsStringMethod(meth.Name)
                    /\ ~isGetNumberOfMethod(meth.Name)
    [] sweep = 4 -> isGetNumberOfMethod(meth.Name)
    [] sweep = 5 -> isAddMethod(meth.Name)

\* SeedsAhead with the loop position itself left out
SeedsAheadPastPosition(s) ==
  {k \in (s.i + 1)..Len(s.methods) :
     ~s.matchedMethods[k] /\ SweepTakes(s.sweep, s.methods[k])}

\* the positions at or after s.i that the current sweep would seed from
SeedsAhead(s) ==
  {k \in s.i..Len(s.methods) :
     ~s.matchedMethods[k] /\ SweepTakes(s.sweep, s.methods[k])}

\* categorizePropertiesBegin with no method removed from consideration
categorizePropertiesBeginAllUnmatched(s) ==
  LET n == Len(s.methods) IN
  [s EXCEPT
     !.MethodTypes = [k \in 1..n |-> {}],
     !.MethodProperties = [k \in 1..n |-> -1],
     !.matchedMethods = [k \in 1..n |-> FALSE],
     !.sweep = 1, !.i = 1, !.pc = "sweep"]

\* lines 1179-1191, with the arrays of vtkParseProperties_Create (1298-1312)
categorizePropertiesBegin(s) ==
  LET n == Len(s.methods) IN
  [s EXCEPT
     !.MethodTypes = [k \in 1..n |-> {}],
     !.MethodProperties = [k \in 1..n |-> -1],
     !.matchedMethods =
        [k \in 1..n |-> ~s.methods[k].HasProperty \/ s.methods[k].IsRepeat],
     !.sweep = 1, !.i = 1, !.pc = "sweep"]

\* one iteration of the loop of categorizePropertyMethods (lines 1268-1277)
categorizePropertyMethodsStep(s) ==
  LET attrs == getMethodAttributes(s.funcs[s.i])
      s1 == [s EXCEPT !.methods = Append(@, attrs), !.i = @ + 1]
  IN IF attrs.HasProperty
       THEN searchForRepeatedMethods(s1, FALSE, Len(s1.methods))
       ELSE s1

\* the end of one sweep loop
sweepEnd(s) ==
  IF s.sweep < NumberOfSweeps
    THEN [s EXCEPT !.sweep = @ + 1, !.i = 1]
    ELSE [s EXCEPT !.i = Len(s.methods) + 1, !.pc = "done"]

(***************************************************************************)
(* The classes the model is run on.  A class is a sequence of at most      *)
(* MaxMethods different FunctionInfo records drawn from one family of      *)
(* methods.                                                                *)
(***************************************************************************)
MaxMethods == 3

Func(name, ret, argTypes) ==
  [Name |-> name, ReturnType |-> ret, ReturnClass |-> NoClass,
   ArgTypes |-> argTypes,
   ArgCounts |-> [k \in 1..Len(argTypes) |-> 0],
   ArgClasses |-> [k \in 1..Len(argTypes) |-> NoClass],
   HaveHint |-> FALSE, HintSize |-> 0,
   IsLegacy |-> FALSE, IsOperator |-> FALSE, ArrayFailure |-> FALSE,
   IsPublic |-> TRUE, IsProtected |-> FALSE]

Legacy(f)    == [f EXCEPT !.IsLegacy = TRUE]
Protected(f) == [f EXCEPT !.IsPublic = FALSE, !.IsProtected = TRUE]
Static(f)    == [f EXCEPT !.ReturnType.static = TRUE]
Failed(f)    == [f EXCEPT !.ArrayFailure = TRUE]
Operator(f)  == [f EXCEPT !.IsOperator = TRUE]
\* the value argument is an array of n elements of class c
ArgArray(f, k, n) == [f EXCEPT !.ArgCounts[k] = n]
ArgClass(f, k, c) == [f EXCEPT !.ArgClasses[k] = c]
Returns(f, c)     == [f EXCEPT !.ReturnClass = c]
Hinted(f, n)      == [f EXCEPT !.HaveHint = TRUE, !.HintSize = n]

\* a scalar value: void SetX(int), SetX(float), SetX(double), a legacy
\* SetX(double), a legacy SetX(int*) whose array the parser could not size,
\* static double GetX(), protected int GetX(), void XOn(),
\* void SetX(unsigned int)
FamilyX ==
  LET SetX == sSet \o <<"X">>
      GetX == sGet \o <<"X">>
  IN
  { Func(SetX, VTK_PARSE_VOID, <<VTK_PARSE_INT>>),
    Func(SetX, VTK_PARSE_VOID, <<Ty("float", "none")>>),
    Func(SetX, VTK_PARSE_VOID, <<Ty("double", "none")>>),
    Legacy(Func(SetX, VTK_PARSE_VOID, <<Ty("double", "none")>>)),
    Failed(Legacy(Func(SetX, VTK_PARSE_VOID, <<Ty("int", "pointer")>>))),
    Static(Func(GetX, Ty("double", "none"), << >>)),
    Protected(Func(GetX, VTK_PARSE_INT, << >>)),
    Func(<<"X">> \o sOn, VTK_PARSE_VOID, << >>),
    Func(SetX, VTK_PARSE_VOID, <<VTK_PARSE_UNSIGNED_INT>>) }

\* indexed accessors and their NumberOf methods
FamilyPoint ==
  LET SetPoint == sSet \o <<"P","o","i","n","t">>
      GetPoint == sGet \o <<"P","o","i","n","t">>
      SetNumberOfPoints == sSet \o sNumberOf \o <<"P","o","i","n","t","s">>
      GetNumberOfPoints == sGet \o sNumberOf \o <<"P","o","i","n","t","s">>
      double == Ty("double", "none")
  IN
  { Func(SetPoint, VTK_PARSE_VOID, <<VTK_PARSE_INT, double>>),
    Func(GetPoint, double, <<VTK_PARSE_INT>>),
    Func(SetNumberOfPoints, VTK_PARSE_VOID, <<VTK_PARSE_INT>>),
    Func(GetNumberOfPoints, VTK_PARSE_INT, << >>),
    Static(Func(GetNumberOfPoints, VTK_PARSE_ID_TYPE, << >>)),
    Func(SetNumberOfPoints, VTK_PARSE_VOID, <<VTK_PARSE_INT, VTK_PARSE_INT>>),
    Func(sSet \o sNth \o <<"P","o","i","n","t">>, VTK_PARSE_VOID,
         <<VTK_PARSE_ID_TYPE, double>>),
    Protected(Func(GetPoint, double, <<VTK_PARSE_INT>>)) }

\* collections of objects: Add, Remove, RemoveAll
FamilyInput ==
  LET AddInput == sAdd \o <<"I","n","p","u","t">>
      RemoveInput == sRemove \o <<"I","n","p","u","t">>
      RemoveAllInputs == sRemove \o sAll \o <<"I","n","p","u","t","s">>
      GetInput == sGet \o <<"I","n","p","u","t">>
      object == Ty("object", "pointer")
  IN
  { ArgClass(Func(AddInput, VTK_PARSE_VOID, <<object>>), 1, "vtkA"),
    ArgClass(Func(AddInput, VTK_PARSE_VOID, <<object>>), 1, "vtkB"),
    ArgClass(Func(RemoveInput, VTK_PARSE_VOID, <<object>>), 1, "vtkA"),
    Legacy(ArgClass(Func(RemoveInput, VTK_PARSE_VOID, <<object>>), 1, "vtkB")),
    Func(RemoveAllInputs, VTK_PARSE_VOID, << >>),
    Returns(Func(GetInput, object, <<VTK_PARSE_INT>>), "vtkA"),
    Func(sGet \o sNumberOf \o <<"I","n","p","u","t","s">>, VTK_PARSE_INT, << >>),
    Func(AddInput, VTK_PARSE_INT, <<Ty("double", "none"), Ty("double", "none")>>) }

\* an enumerated value: SetModeToA(), GetModeAsString(), GetModeMinValue()
FamilyMode ==
  LET SetMode == sSet \o <<"M","o","d","e">>
      GetMode == sGet \o <<"M","o","d","e">>
  IN
  { Func(SetMode \o sTo \o <<"A">>, VTK_PARSE_VOID, << >>),
    Func(SetMode \o sTo \o <<"B">>, VTK_PARSE_VOID, << >>),
    Func(SetMode, VTK_PARSE_VOID, <<VTK_PARSE_INT>>),
    Func(SetMode, VTK_PARSE_VOID, <<Ty("float", "none")>>),
    Func(GetMode, VTK_PARSE_INT, << >>),
    Func(GetMode \o sAsString, [Ty("char", "pointer") EXCEPT !.const = TRUE], << >>),
    Func(GetMode \o sMinValue, VTK_PARSE_INT, << >>),
    Func(SetMode \o sMinValue, VTK_PARSE_VOID, <<VTK_PARSE_INT>>),
    Func(<<"M","o","d","e">> \o sOff, VTK_PARSE_VOID, << >>) }

\* array values: overloads by element type and count, hinted and
\* right-hand-side getters, multi-value setters and getters
FamilyV ==
  LET SetV == sSet \o <<"V">>
      GetV == sGet \o <<"V">>
      pdouble == Ty("double", "pointer")
      double == Ty("double", "none")
      rdouble == Ty("double", "ref")
  IN
  { ArgArray(Func(SetV, VTK_PARSE_VOID, <<pdouble>>), 1, 2),
    ArgArray(Func(SetV, VTK_PARSE_VOID, <<pdouble>>), 1, 3),
    ArgArray(Func(SetV, VTK_PARSE_VOID, <<Ty("float", "pointer")>>), 1, 3),
    Legacy(ArgArray(Func(SetV, VTK_PARSE_VOID, <<Ty("int", "pointer")>>), 1, 3)),
    Hinted(Func(GetV, pdouble, << >>), 3),
    ArgArray(Func(GetV, VTK_PARSE_VOID, <<pdouble>>), 1, 3),
    Func(SetV, VTK_PARSE_VOID, <<double, double, double>>),
    Func(GetV, VTK_PARSE_VOID, <<rdouble, rdouble, rdouble>>) }

\* methods the extractor rejects, next to methods of the same name
FamilyU ==
  LET SetX == sSet \o <<"X">>
      GetX == sGet \o <<"X">>
  IN
  { Func(NULL, VTK_PARSE_VOID, <<VTK_PARSE_INT>>),
    Operator(Func(<<"o","p","e","r","a","t","o","r","=">>, VTK_PARSE_VOID,
                  <<VTK_PARSE_INT>>)),
    Failed(Func(SetX, VTK_PARSE_VOID, <<Ty("double", "pointer")>>)),
    Func(sSet \o <<"u","p">>, VTK_PARSE_VOID, << >>),
    Func(SetX, VTK_PARSE_INT, <<VTK_PARSE_INT>>),
    Func(SetX, VTK_PARSE_VOID, <<VTK_PARSE_INT>>),
    Legacy(Func(SetX, VTK_PARSE_VOID, <<VTK_PARSE_INT>>)),
    Legacy(Func(GetX, VTK_PARSE_INT, << >>)) }

\* names whose second word is itself a prefix word: void SetRemoveX(int),
\* int GetRemoveX(), void AddNthX(vtkA*), void SetNthX(int, double),
\* void SetGetX(int), double GetSetX(), void SetNthNthX(int, double),
\* void GetXOn()
FamilyNames ==
  LET X == <<"X">>
      vtkA == "vtkA"
  IN
  { Func(sSet \o sRemove \o X, VTK_PARSE_VOID, <<VTK_PARSE_INT>>),
    Func(sGet \o sRemove \o X, VTK_PARSE_INT, << >>),
    ArgClass(Func(sAdd \o sNth \o X, VTK_PARSE_VOID,
                  <<Ty("object", "pointer")>>), 1, vtkA),
    Func(sSet \o sNth \o X, VTK_PARSE_VOID,
         <<VTK_PARSE_INT, Ty("double", "none")>>),
    Func(sSet \o sGet \o X, VTK_PARSE_VOID, <<VTK_PARSE_INT>>),
    Func(sGet \o sSet \o X, Ty("double", "none"), << >>),
    Func(sSet \o sNth \o sNth \o X, VTK_PARSE_VOID,
         <<VTK_PARSE_INT, Ty("double", "none")>>),
    Func(sGet \o X \o sOn, VTK_PARSE_VOID, << >>) }

\* a scalar value next to NumberOf methods: void SetItem(int), int GetItem(),
\* void SetNumberOfItems(int), int GetNumberOfItems(),
\* void SetItem(int, double), double GetNumberOfItems(),
\* void SetNumberOfItems(int, double), int SetNumberOfItems(int)
FamilyItem ==
  LET Item == <<"I","t","e","m">>
      SetNumberOfItems == sSet \o sNumberOf \o Item \o <<"s">>
      GetNumberOfItems == sGet \o sNumberOf \o Item \o <<"s">>
      double == Ty("double", "none")
  IN
  { Func(sSet \o Item, VTK_PARSE_VOID, <<VTK_PARSE_INT>>),
    Func(sGet \o Item, VTK_PARSE_INT, << >>),
    Func(SetNumberOfItems, VTK_PARSE_VOID, <<VTK_PARSE_INT>>),
    Func(GetNumberOfItems, VTK_PARSE_INT, << >>),
    Func(sSet \o Item, VTK_PARSE_VOID, <<VTK_PARSE_INT, double>>),
    Func(GetNumberOfItems, double, << >>),
    Func(SetNumberOfItems, VTK_PARSE_VOID, <<VTK_PARSE_INT, double>>),
    Func(SetNumberOfItems, VTK_PARSE_INT, <<VTK_PARSE_INT>>) }

\* boolean, enumerated and AsString methods next to setters of several
\* types: void SetState(bool), SetState(int), SetState(unsigned char),
\* SetState(double), SetState(char*), void SetStateToAB(), void StateOn(),
\* const char *GetStateAsString()
FamilyState ==
  LET State == <<"S","t","a","t","e">>
      SetState == sSet \o State
  IN
  { Func(SetState, VTK_PARSE_VOID, <<VTK_PARSE_BOOL>>),
    Func(SetState, VTK_PARSE_VOID, <<VTK_PARSE_INT>>),
    Func(SetState, VTK_PARSE_VOID, <<VTK_PARSE_UNSIGNED_CHAR>>),
    Func(SetState, VTK_PARSE_VOID, <<Ty("double", "none")>>),
    Func(SetState, VTK_PARSE_VOID, <<Ty("char", "pointer")>>),
    Func(SetState \o sTo \o <<"A","B">>, VTK_PARSE_VOID, << >>),
    Func(State \o sOn, VTK_PARSE_VOID, << >>),
    Func(sGet \o State \o sAsString,
         [Ty("char", "pointer") EXCEPT !.const = TRUE], << >>) }

\* text after the property name: void SetX(int), int GetXOn(),
\* int GetXAsInt(), int GetXs(), void AddX(int), void RemoveAllXs(),
\* void SetXOnly(int), int GetXMaxValue()
FamilySuffix ==
  LET X == <<"X">>
      GetX == sGet \o X
  IN
  { Func(sSet \o X, VTK_PARSE_VOID, <<VTK_PARSE_INT>>),
    Func(GetX \o sOn, VTK_PARSE_INT, << >>),
    Func(GetX \o <<"A","s","I","n","t">>, VTK_PARSE_INT, << >>),
    Func(GetX \o <<"s">>, VTK_PARSE_INT, << >>),
    Func(sAdd \o X, VTK_PARSE_VOID, <<VTK_PARSE_INT>>),
    Func(sRemove \o sAll \o X \o <<"s">>, VTK_PARSE_VOID, << >>),
    Func(sSet \o X \o <<"O","n","l","y">>, VTK_PARSE_VOID, <<VTK_PARSE_INT>>),
    Func(GetX \o sMaxValue, VTK_PARSE_INT, << >>) }

Families ==
  {FamilyX, FamilyPoint, FamilyInput, FamilyMode, FamilyV, FamilyU, FamilyNames,
   FamilyItem, FamilyState, FamilySuffix}

RECURSIVE SeqsOf(_, _)
\* the sequences of n different elements of S: a class declares a
\* signature once
SeqsOf(S, n) ==
  IF n = 0 THEN {<< >>}
  ELSE UNION {{Append(q, x) : x \in S \ {q[k] : k \in 1..Len(q)}} :
                q \in SeqsOf(S, n - 1)}

\* void SetModeToA(); void SetModeToB(); void SetMode(int); int GetMode();
\* const char *GetModeAsString();
ModeClass ==
  LET SetMode == sSet \o <<"M","o","d","e">>
      GetMode == sGet \o <<"M","o","d","e">>
  IN
  << Func(SetMode \o sTo \o <<"A">>, VTK_PARSE_VOID, << >>),
     Func(SetMode \o sTo \o <<"B">>, VTK_PARSE_VOID, << >>),
     Func(SetMode, VTK_PARSE_VOID, <<VTK_PARSE_INT>>),
     Func(GetMode, VTK_PARSE_INT, << >>),
     Func(GetMode \o sAsString,
          [Ty("char", "pointer") EXCEPT !.const = TRUE], << >>) >>

\* void SetPoint(int, double); double GetPoint(int);
\* void SetNumberOfPoints(int); int GetNumberOfPoints();
PointClass ==
  LET Point == <<"P","o","i","n","t">>
      double == Ty("double", "none")
  IN
  << Func(sSet \o Point, VTK_PARSE_VOID, <<VTK_PARSE_INT, double>>),
     Func(sGet \o Point, double, <<VTK_PARSE_INT>>),
     Func(sSet \o sNumberOf \o Point \o <<"s">>, VTK_PARSE_VOID, <<VTK_PARSE_INT>>),
     Func(sGet \o sNumberOf \o Point \o <<"s">>, VTK_PARSE_INT, << >>) >>

\* the classes of at most MaxMethods methods of one family, and the two
\* classes above
Classes ==
  UNION {UNION {SeqsOf(fam, n) : n \in 0..MaxMethods} : fam \in Families}
    \cup {ModeClass, PointClass}

(***************************************************************************)
(* The state machine                                                       *)
(***************************************************************************)
VARIABLES
  pc,               \* "extract", "sweep", "find", "done"
  funcs,            \* data->Functions, the input
  methods,          \* methods->Methods
  matchedMethods,   \* the local array of categorizeProperties
  MethodTypes,      \* properties->MethodTypes
  MethodProperties, \* properties->MethodProperties
  Properties,       \* properties->Properties[0 .. NumberOfProperties-1]
  property,         \* the property addProperty is building
  sweep,            \* which of the five loops of categorizeProperties runs
  i,                \* the loop position (1-based)
  foundNoMatches,   \* the loop flag of findAllMatches
  scans,            \* scans made by the current call of findAllMatches
  hSeed,            \* history: hSeed[p+1] is the position that seeded property p
  hFolded,          \* history: the methods findAllMatches accepted
  hPairs            \* history: the pairs searchForRepeatedMethods ordered

vars == <<pc, funcs, methods, matchedMethods, MethodTypes, MethodProperties,
          Properties, property, sweep, i, foundNoMatches, scans,
          hSeed, hFolded, hPairs>>

\* the state as one record, and the state a record describes
Rec ==
  [pc |-> pc, funcs |-> funcs, methods |-> methods,
   matchedMethods |-> matchedMethods, MethodTypes |-> MethodTypes,
   MethodProperties |-> MethodProperties, Properties |-> Properties,
   property |-> property, sweep |-> sweep, i |-> i,
   foundNoMatches |-> foundNoMatches, scans |-> scans,
   hSeed |-> hSeed, hFolded |-> hFolded, hPairs |-> hPairs]

Becomes(s) ==
  /\ pc' = s.pc /\ funcs' = s.funcs /\ methods' = s.methods
  /\ matchedMethods' = s.matchedMethods /\ MethodTypes' = s.MethodTypes
  /\ MethodProperties' = s.MethodProperties /\ Properties' = s.Properties
  /\ property' = s.property /\ sweep' = s.sweep /\ i' = s.i
  /\ foundNoMatches' = s.foundNoMatches /\ scans' = s.scans
  /\ hSeed' = s.hSeed /\ hFolded' = s.hFolded /\ hPairs' = s.hPairs

\* the state on entry to vtkParseProperties_Create(data)
StartOf(data) ==
  [pc |-> "extract", funcs |-> data, methods |-> << >>,
   matchedMethods |-> << >>, MethodTypes |-> << >>,
   MethodProperties |-> << >>, Properties |-> << >>,
   property |-> NoProperty, sweep |-> 0, i |-> 1,
   foundNoMatches |-> FALSE, scans |-> 0,
   hSeed |-> << >>, hFolded |-> {}, hPairs |-> {}]

Starts(s) ==
  /\ pc = s.pc /\ funcs = s.funcs /\ methods = s.methods
  /\ matchedMethods = s.matchedMethods /\ MethodTypes = s.MethodTypes
  /\ MethodProperties = s.MethodProperties /\ Properties = s.Properties
  /\ property = s.property /\ sweep = s.sweep /\ i = s.i
  /\ foundNoMatches = s.foundNoMatches /\ scans = s.scans
  /\ hSeed = s.hSeed /\ hFolded = s.hFolded /\ hPairs = s.hPairs

Init == \E data \in Classes : Starts(StartOf(data))

\* categorizePropertyMethods: extract the next method
ExtractMethod ==
  /\ pc = "extract" /\ i <= Len(funcs)
  /\ Becomes(categorizePropertyMethodsStep(Rec))

\* vtkParseProperties_Create allocates the arrays, categorizeProperties starts
BeginCategorize ==
  /\ pc = "extract" /\ i > Len(funcs)
  /\ Becomes(categorizePropertiesBegin(Rec))

\* the current sweep reaches its next seed and addProperty starts
AddPropertyBegin ==
  /\ pc = "sweep" /\ SeedsAhead(Rec) # {}
  /\ Becomes(addPropertyBegin(Rec, Min(SeedsAhead(Rec))))

\* the current sweep finds no further seed
SweepEnd ==
  /\ pc = "sweep" /\ SeedsAhead(Rec) = {}
  /\ Becomes(sweepEnd(Rec))

\* one scan of findAllMatches
FindAllMatchesScan ==
  /\ pc = "find" /\ ~foundNoMatches
  /\ Becomes(findAllMatchesScan(Rec))

\* findAllMatches returns and addProperty stores the property
AddPropertyEnd ==
  /\ pc = "find" /\ foundNoMatches
  /\ Becomes(addPropertyEnd(Rec))

Next ==
  \/ ExtractMethod
  \/ BeginCategorize
  \/ AddPropertyBegin
  \/ SweepEnd
  \/ FindAllMatchesScan
  \/ AddPropertyEnd

Spec == Init /\ [][Next]_vars

\* the whole run as a function of the input
Step(s) ==
  IF s.pc = "extract" THEN
    (IF s.i <= Len(s.funcs) THEN categorizePropertyMethodsStep(s)
     ELSE categorizePropertiesBegin(s))
  ELSE IF s.pc = "sweep" THEN
    (IF SeedsAhead(s) # {} THEN addPropertyBegin(s, Min(SeedsAhead(s)))
     ELSE sweepEnd(s))
  ELSE IF s.pc = "find" THEN
    (IF ~s.foundNoMatches THEN findAllMatchesScan(s) ELSE addPropertyEnd(s))
  ELSE s

RECURSIVE RunFrom(_)
RunFrom(s) == IF s.pc = "done" THEN s ELSE RunFrom(Step(s))

vtkParseProperties_Create(data) == RunFrom(StartOf(data))

TypeOK ==
  /\ pc \in {"extract", "sweep", "find", "done"}
  /\ Len(methods) <= Len(funcs)
  /\ Len(Properties) = Len(hSeed) - (IF pc = "find" THEN 1 ELSE 0)

(***************************************************************************)
(* Vocabulary of the properties checked below                              *)
(***************************************************************************)
Done == pc = "done"
NumberOfMethods == Len(methods)
NumberOfProperties == Len(Properties)
MethodIds == 1..Len(methods)
PropertyIds == 0..(Len(Properties) - 1)

\* the methods findAllMatches folded into property p, and all members of p
FoldedInto(p) == {f.method : f \in {g \in hFolded : g.property = p}}
SeedOf(p) == hSeed[p + 1]
Members(p) == {SeedOf(p)} \cup FoldedInto(p)
Placed == UNION {Members(p) : p \in 0..(Len(hSeed) - 1)}

Access(meth) ==
  IF meth.IsPublic THEN "public"
  ELSE IF meth.IsProtected THEN "protected" ELSE "private"

AccessBitfield(prop, access) ==
  CASE access = "public" -> prop.PublicMethods
    [] access = "protected" -> prop.ProtectedMethods
    [] access = "private" -> prop.PrivateMethods

\* the OR of the categories of the methods in S
OrOfCategories(S) == UNION {MethodTypes[k] : k \in S}

\* C1: when vtkParseProperties_Create has finished, every entry of
\* MethodProperties is -1 or the index of an existing property.
C1_MethodPropertyInRange ==
  Done => \A k \in MethodIds :
            \/ MethodProperties[k] = -1
            \/ (0 <= MethodProperties[k] /\ MethodProperties[k] < NumberOfProperties)

\* C1 witness: a finished run with two properties, a method attached to the
\* second one and a method attached to none.
C1_Witness ==
  /\ Done /\ NumberOfProperties = 2
  /\ \E k \in MethodIds : MethodProperties[k] = 1
  /\ \E k \in MethodIds : MethodProperties[k] = -1

\* C2: at the end, each access bitfield of each property is the OR of the
\* final categories of exactly the non-repeat methods of that access that
\* map to the property, and the legacy bitfield is the OR over the legacy
\* ones among them.
C2_BitfieldsAreOrOfMembers ==
  Done => \A p \in PropertyIds :
    LET mine == {k \in MethodIds : ~methods[k].IsRepeat /\ MethodProperties[k] = p}
    IN /\ \A a \in {"public", "protected", "private"} :
            AccessBitfield(Properties[p + 1], a) =
              OrOfCategories({k \in mine : Access(methods[k]) = a})
       /\ Properties[p + 1].LegacyMethods =
              OrOfCategories({k \in mine : methods[k].IsLegacy})

\* C3: a method that is a repeat at the end was neither the seed of a
\* property nor folded into one.
C3_RepeatNeverPlaced ==
  Done => \A k \in MethodIds : methods[k].IsRepeat => k \notin Placed

\* C4: when the method that superseded a repeat is placed in a property, the
\* repeat ends with the category and the property of that method.
C4_RepeatMirrorsWinner ==
  Done => \A r \in hPairs :
    r.winner \in Placed =>
      /\ MethodTypes[r.loser] = MethodTypes[r.winner]
      /\ MethodProperties[r.loser] = MethodProperties[r.winner]

\* the ordering C5 states: double over float, then the higher count,
\* then non-legacy over legacy
BeatsInOrder(w, l) ==
  IF vtkParse_BaseType(w.Type) = "double" /\ vtkParse_BaseType(l.Type) = "float"
    THEN TRUE
  ELSE IF vtkParse_BaseType(w.Type) = "float" /\ vtkParse_BaseType(l.Type) = "double"
    THEN FALSE
  ELSE IF w.Count # l.Count THEN w.Count > l.Count
  ELSE ~w.IsLegacy /\ l.IsLegacy

\* C5: in every pair the repeat resolver orders, the survivor beats the
\* method marked repeat under double > float, then count, then non-legacy.
C5_RepeatDominance ==
  \A r \in hPairs : BeatsInOrder(methods[r.winner], methods[r.loser])

\* C7: at the end a non-repeat method has a category exactly when it has a
\* property, and a repeat has the category and property of its winner.
C7_CategoryPropertyCoherence ==
  Done => \A k \in MethodIds :
    IF ~methods[k].IsRepeat
      THEN (MethodTypes[k] # {}) <=> (MethodProperties[k] >= 0)
      ELSE \A r \in hPairs : r.loser = k =>
             /\ MethodTypes[k] = MethodTypes[r.winner]
             /\ MethodProperties[k] = MethodProperties[r.winner]

\* C8: a method the extractor rejects ends with no property and no category.
C8_RejectedStaysUnmapped ==
  Done => \A k \in MethodIds :
    ~methods[k].HasProperty =>
      MethodProperties[k] = -1 /\ MethodTypes[k] = {}

\* the fields that identify a property: name, value type, count, class
\* name and the four bitfields
Identity(prop) ==
  [Name |-> prop.Name, Type |-> prop.Type, Count |-> prop.Count,
   ClassName |-> prop.ClassName,
   PublicMethods |-> prop.PublicMethods,
   ProtectedMethods |-> prop.ProtectedMethods,
   PrivateMethods |-> prop.PrivateMethods,
   LegacyMethods |-> prop.LegacyMethods]

\* what a finished run s tells about its class, whatever the order of the
\* methods: the properties with the methods mapped to each, and the
\* category of each method (a method is named by its FunctionInfo)
PropertiesWithMembers(s) ==
  {[property |-> Identity(s.Properties[p + 1]),
    members |-> {s.funcs[k] : k \in {m \in 1..Len(s.funcs) :
                                        s.MethodProperties[m] = p}}] :
     p \in 0..(Len(s.Properties) - 1)}

CategoryOfMethods(s) ==
  {<<s.funcs[k], s.MethodTypes[k]>> : k \in 1..Len(s.funcs)}

OrdersOf(n) ==
  {f \in [1..n -> 1..n] : \A a, b \in 1..n : f[a] = f[b] => a = b}

Permuted(q, f) == [k \in 1..Len(q) |-> q[f[k]]]

\* C6: the synthesizer run on any permutation of the method list gives the
\* same set of properties, the same members for each and the same category
\* for each method.
C6_PermutationInvariant ==
  Done => \A f \in OrdersOf(Len(funcs)) :
    LET other == vtkParseProperties_Create(Permuted(funcs, f)) IN
    /\ PropertiesWithMembers(other) = PropertiesWithMembers(Rec)
    /\ CategoryOfMethods(other) = CategoryOfMethods(Rec)

\* after the matcher's normalization meth has the value type and the count
\* of prop, and its class name when the value is an object
TypeCoherent(meth, prop) ==
  /\ NormalizedMethType(meth, prop.Type) = prop.Type
  /\ meth.Count = prop.Count
  /\ vtkParse_BaseType(prop.Type) = "object" => meth.ClassName = prop.ClassName

\* C9: every member of a property has, after the matcher's normalization,
\* the value type and the count of the property, and the class name of the
\* property when the value is an object.
C9_AllMembersTypeCoherent ==
  Done => \A p \in PropertyIds : \A k \in Members(p) :
            TypeCoherent(methods[k], Properties[p + 1])

\* the members of p accepted by the cross-checks of lines 800-824, which
\* return before the types are compared: RemoveAll next to an Add member,
\* Get/SetNumberOf next to an indexed Get/Set member
AcceptedByCrossCheck(p) ==
  {f.method : f \in {g \in hFolded : g.property = p /\ g.exit \in {806, 815, 823}}}

\* C9, for the members the type comparison decides: every member of a
\* property other than those accepted by
\* the RemoveAll and NumberOf cross-checks has, after the matcher's
\* normalization, the value type and count of the property, and its class
\* name when the value is an object.
C9_MembersTypeCoherent ==
  Done => \A p \in PropertyIds : \A k \in Members(p) \ AcceptedByCrossCheck(p) :
            TypeCoherent(methods[k], Properties[p + 1])

\* C9 witness: a finished property with a multi-value member that was
\* folded in by the type comparison, its declared type differing from the
\* property type before normalization.
C9_Witness ==
  /\ Done
  /\ \E p \in PropertyIds : \E k \in FoldedInto(p) \ AcceptedByCrossCheck(p) :
        /\ methods[k].IsMultiValue
        /\ methods[k].Type # Properties[p + 1].Type

\* C10: a property is static exactly when one of its members is static.
C10_StaticPromotion ==
  Done => \A p \in PropertyIds :
            Properties[p + 1].IsStatic <=> \E k \in Members(p) : methods[k].IsStatic

\* C10 witness: a finished static property whose seed is not static and
\* which has a static method folded in.
C10_Witness ==
  /\ Done
  /\ \E p \in PropertyIds :
        /\ Properties[p + 1].IsStatic
        /\ ~methods[SeedOf(p)].IsStatic
        /\ \E k \in FoldedInto(p) : methods[k].IsStatic

\* the name begins with the word w followed by an uppercase letter
BeginsWithPrefix(name, w) ==
  HasAt(name, 0, w) /\ isupper(Ch(name, Len(w)))

\* C11: every property has a non-empty name that does not begin with Set,
\* Get, Add, Remove or Nth followed by an uppercase letter.
C11_NamesHaveNoPrefix ==
  Done => \A p \in PropertyIds :
    LET name == Properties[p + 1].Name IN
    /\ name # NULL /\ strlen(name) > 0
    /\ \A w \in {sSet, sGet, sAdd, sRemove, sNth} : ~BeginsWithPrefix(name, w)

\* C11, for what one removal leaves: every property has a non-empty name
\* that begins with an uppercase letter, and the name of its seed is Set,
\* Get or Add, then Nth when the seed is a SetNth or GetNth method, then
\* the property name.
C11_NameIsSeedWithoutOnePrefix ==
  Done => \A p \in PropertyIds :
    LET name == Properties[p + 1].Name
        seed == methods[SeedOf(p)].Name
        nth == IF isSetNthMethod(seed) \/ isGetNthMethod(seed)
                 THEN sNth ELSE << >>
    IN
    /\ name # NULL /\ strlen(name) > 0 /\ isupper(Ch(name, 0))
    /\ \E w \in {sSet, sGet, sAdd} : seed = w \o nth \o name

\* C11 witness: a finished run with a property seeded by a SetNth method
\* and a property whose name begins with a prefix word.
C11_Witness ==
  /\ Done
  /\ \E p \in PropertyIds : isSetNthMethod(methods[SeedOf(p)].Name)
  /\ \E p \in PropertyIds : \E w \in {sSet, sGet, sAdd, sRemove, sNth} :
        BeginsWithPrefix(Properties[p + 1].Name, w)

\* C12: for SetModeToA(), SetModeToB(), SetMode(int), int GetMode(),
\* const char *GetModeAsString() there is one property, Mode, of type int,
\* with enum constants A then B and public methods
\* BASIC_SET | BASIC_GET | ENUM_SET | STRING_GET, and all five methods map
\* to it.
C12_ModeClass ==
  (Done /\ funcs = ModeClass) =>
    /\ NumberOfProperties = 1
    /\ Properties[1].Name = <<"M","o","d","e">>
    /\ Properties[1].Type = VTK_PARSE_INT
    /\ Properties[1].EnumConstantNames = << <<"A">>, <<"B">> >>
    /\ Properties[1].PublicMethods =
          {"BASIC_SET", "BASIC_GET", "ENUM_SET", "STRING_GET"}
    /\ \A k \in MethodIds : MethodProperties[k] = 0

\* C13: for SetPoint(int, double), double GetPoint(int),
\* SetNumberOfPoints(int), int GetNumberOfPoints() there is one property,
\* Point, of type double, seeded by SetPoint, with public methods
\* INDEX_SET | INDEX_GET | SET_NUM | GET_NUM, and no NumberOfPoints property.
C13_PointClass ==
  (Done /\ funcs = PointClass) =>
    /\ NumberOfProperties = 1
    /\ Properties[1].Name = <<"P","o","i","n","t">>
    /\ Properties[1].Type = Ty("double", "none")
    /\ SeedOf(0) = 1
    /\ Properties[1].PublicMethods =
          {"INDEX_SET", "INDEX_GET", "SET_NUM", "GET_NUM"}

\* C13 witness: the run on that class has finished, the two NumberOf
\* methods accepted by the cross-checks of lines 809-824.
C13_Witness ==
  /\ Done /\ funcs = PointClass
  /\ {3, 4} \subseteq AcceptedByCrossCheck(0)

\* the Get/SetNumberOf methods folded into properties, and the indexed
\* accessor each needs
IsNumberOfMethod(name) == isGetNumberOfMethod(name) \/ isSetNumberOfMethod(name)

IndexedAccessorsFor(name) ==
  IF isGetNumberOfMethod(name) THEN {"INDEX_GET", "NTH_GET"}
  ELSE {"INDEX_SET", "NTH_SET"}

AllBits(prop) ==
  prop.PublicMethods \cup prop.ProtectedMethods \cup prop.PrivateMethods

\* C14: a GetNumberOf or SetNumberOf method is folded into a property only
\* when its value is a non-indirect int or id-type and the property has an
\* indexed Get, respectively indexed Set, member.
C14_NumberOfNeedsIndexedAccessor ==
  Done => \A f \in hFolded :
    LET meth == methods[f.method]
        prop == Properties[f.property + 1]
    IN IsNumberOfMethod(meth.Name) =>
         /\ Unqualified(meth.Type) \in {VTK_PARSE_INT, VTK_PARSE_ID_TYPE}
         /\ AllBits(prop) \cap IndexedAccessorsFor(meth.Name) # {}

FirstIsIndex(func) ==
  /\ Len(func.ArgTypes) > 0
  /\ vtkParse_BaseType(func.ArgTypes[1]) \in {"int", "idtype"}
  /\ vtkParse_TypeIndirection(func.ArgTypes[1]) = "none"

\* C16: no method named SetNumberOf...s is marked indexed by the extractor.
C16_SetNumberOfNeverIndexed ==
  \A k \in MethodIds :
    isSetNumberOfMethod(methods[k].Name) => ~methods[k].IsIndexed

\* C16, for what the extractor does: a method named SetNumberOf...s that is
\* not rejected for an operator or an array failure is marked indexed
\* exactly when its first argument is a non-indirect int or id-type and it
\* either returns void and has two arguments, of one type or not, or
\* returns a value and has one argument.
C16_SetNumberOfIndexedWhenTwoArguments ==
  \A k \in MethodIds :
    LET func == funcs[k] IN
    (isSetNumberOfMethod(func.Name) /\ ~func.ArrayFailure /\ ~func.IsOperator) =>
      (methods[k].IsIndexed <=>
         /\ FirstIsIndex(func)
         /\ \/ (IsVoidType(func.ReturnType) /\ Len(func.ArgTypes) = 2)
            \/ (~IsVoidType(func.ReturnType) /\ Len(func.ArgTypes) = 1))

\* C16 witness: the extractor has marked void SetNumberOf...s(int, int)
\* indexed.
C16_Witness ==
  \E k \in MethodIds :
    /\ isSetNumberOfMethod(methods[k].Name)
    /\ methods[k].IsIndexed
    /\ Len(funcs[k].ArgTypes) = 2
    /\ funcs[k].ArgTypes[1] = funcs[k].ArgTypes[2]

\* C17: when findAllMatches returns, the matcher accepts no method that is
\* still unmatched for the property it has built.
C17_FoldIsFixedPoint ==
  (pc = "find" /\ foundNoMatches) =>
    \A k \in MethodIds :
      ~matchedMethods[k] => ~methodMatchesProperty(property, methods[k]).match

\* C17 witness: findAllMatches returns after a scan that folded in a
\* NumberOf or RemoveAll method standing before the member it depends on.
C17_Witness ==
  /\ pc = "find" /\ foundNoMatches /\ scans = 3
  /\ \E f, g \in hFolded :
        /\ f.property = Len(Properties) /\ g.property = Len(Properties)
        /\ f.exit \in {806, 815, 823}
        /\ f.method < g.method

\* the sweep a seed belongs to by its name: 1 Set, 2 SetNumberOf, 3 Get,
\* 4 GetNumberOf, 5 Add, and 0 for any other method
SweepOfSeed(meth) ==
  LET name == meth.Name IN
  IF isSetNumberOfMethod(name) THEN 2
  ELSE IF isSetMethod(name) /\ ~meth.IsEnumerated THEN 1
  ELSE IF isGetNumberOfMethod(name) THEN 4
  ELSE IF isGetMethod(name) /\ ~isAsStringMethod(name) THEN 3
  ELSE IF isAddMethod(name) THEN 5
  ELSE 0

\* C18: properties are created in sweep order (Set, SetNumberOf, Get,
\* GetNumberOf, Add), within a sweep in increasing method position, and
\* only from methods that are still unmatched: a seed has a property
\* shape, was not a repeat when the sweeps began, seeds no other property
\* and was folded into none.
C18_SweepOrder ==
  /\ \A p \in 1..Len(hSeed) :
        /\ SweepOfSeed(methods[hSeed[p]]) \in 1..NumberOfSweeps
        /\ methods[hSeed[p]].HasProperty
        /\ \A f \in hFolded : f.method # hSeed[p]
        /\ \A r \in hPairs : ~r.copied => r.loser # hSeed[p]
  /\ \A p, q \in 1..Len(hSeed) :
        p < q =>
          \/ SweepOfSeed(methods[hSeed[p]]) < SweepOfSeed(methods[hSeed[q]])
          \/ /\ SweepOfSeed(methods[hSeed[p]]) = SweepOfSeed(methods[hSeed[q]])
             /\ hSeed[p] < hSeed[q]

\* C18 witness: a finished run with a property seeded by a SetNumberOf
\* method, then one seeded by a Get method standing before it in the list.
C18_Witness ==
  /\ Done
  /\ \E p, q \in 1..Len(hSeed) :
        /\ p < q /\ hSeed[q] < hSeed[p]
        /\ SweepOfSeed(methods[hSeed[p]]) = 2
        /\ SweepOfSeed(methods[hSeed[q]]) = 3

\* the categories that are no suffix specialization
FullFormCategories ==
  {"BASIC_SET", "MULTI_SET", "INDEX_SET", "NTH_SET",
   "BASIC_GET", "MULTI_GET", "INDEX_GET", "NTH_GET",
   "RHS_GET", "INDEX_RHS_GET", "NTH_RHS_GET",
   "BASIC_ADD", "MULTI_ADD", "INDEX_ADD"}

\* C19: the category addProperty records for a seed is one full-form
\* category, never BOOL_ON, BOOL_OFF, ENUM_SET, STRING_GET, MIN_GET,
\* MAX_GET, GET_NUM or SET_NUM; a method findAllMatches has just folded in
\* has the short form when longMatch was false and the full form when it
\* was true.
C19_SeedGetsFullForm ==
  pc = "find" =>
    /\ (scans = 0 /\ ~methods[i].IsRepeat) =>
          \E c \in FullFormCategories : MethodTypes[i] = {c}
    /\ \A f \in hFolded :
          (f.property = Len(Properties) /\ ~methods[f.method].IsRepeat) =>
            MethodTypes[f.method] = methodCategory(methods[f.method], ~f.longMatch)

\* the methods the next scan of findAllMatches hands to the matcher
Unmatched == {k \in MethodIds : ~matchedMethods[k]}

\* a GetAsString getter returning char*
IsCharAsString(meth) ==
  /\ isAsStringMethod(meth.Name)
  /\ Unqualified(meth.Type) = Ty("char", "pointer")

\* boolean, enumerated, or a GetAsString getter returning char*
IsPromotable(meth) ==
  meth.IsBoolean \/ meth.IsEnumerated \/ IsCharAsString(meth)

\* the matcher got as far as comparing the types (line 877)
ReachesTypeCheck(r) == r.exit \in {879, 890, 895}

\* C20: in the matcher a boolean, enumerated or char* GetAsString method
\* takes the property's type, and so passes the type check, whenever that
\* type is a non-indirect int, unsigned int, unsigned char or bool; for
\* every other property type the method does not match.
C20_PromotionToIntOrBool ==
  pc = "find" => \A k \in Unmatched :
    LET meth == methods[k]
        r == methodMatchesProperty(property, meth)
    IN (IsPromotable(meth) /\ ReachesTypeCheck(r)) =>
         IF property.Type \in {VTK_PARSE_INT, VTK_PARSE_UNSIGNED_INT,
                               VTK_PARSE_UNSIGNED_CHAR, VTK_PARSE_BOOL}
           THEN meth.Count = property.Count => r.match
           ELSE ~r.match

\* C20, with bool kept for boolean methods: the method takes the
\* property's type whenever that type is a non-indirect int, unsigned int
\* or unsigned char, or is bool and the method is boolean; for every other
\* property type a boolean or enumerated method does not match, and a
\* char* GetAsString getter matches exactly a char* property of its count.
C20_PromotionBoolForBooleanOnly ==
  pc = "find" => \A k \in Unmatched :
    LET meth == methods[k]
        r == methodMatchesProperty(property, meth)
    IN (IsPromotable(meth) /\ ReachesTypeCheck(r)) =>
         IF \/ property.Type \in {VTK_PARSE_INT, VTK_PARSE_UNSIGNED_INT,
                                  VTK_PARSE_UNSIGNED_CHAR}
            \/ (meth.IsBoolean /\ property.Type = VTK_PARSE_BOOL)
           THEN meth.Count = property.Count => r.match
           ELSE r.match <=>
                  /\ ~meth.IsBoolean /\ ~meth.IsEnumerated
                  /\ property.Type = Ty("char", "pointer")
                  /\ meth.Count = property.Count

\* C20 witness: the matcher is about to compare a bool property with a
\* boolean method, which it accepts, and an enumerated method, which it
\* rejects at the type check.
C20_Witness ==
  /\ pc = "find" /\ property.Type = VTK_PARSE_BOOL
  /\ \E k \in Unmatched :
        /\ methods[k].IsBoolean
        /\ methodMatchesProperty(property, methods[k]).exit = 895
  /\ \E k \in Unmatched :
        /\ methods[k].IsEnumerated
        /\ methodMatchesProperty(property, methods[k]).exit = 879

\* the name of property p, finished or being built
NameOfProperty(p) ==
  IF p < Len(Properties) THEN Properties[p + 1].Name ELSE property.Name

StartsWith(s, w) == Len(s) >= Len(w) /\ SubSeq(s, 1, Len(w)) = w

\* the method name with a recognized prefix removed: Get, Set, Add (3),
\* GetNth, SetNth, Remove (6), RemoveAll (9), GetNumberOf, SetNumberOf (11);
\* a name with no prefix stays whole
Stripped(name) ==
  (IF isGetMethod(name) \/ isSetMethod(name) \/ isAddMethod(name)
     THEN {StrFrom(name, 3)} ELSE {})
  \cup (IF isGetNthMethod(name) \/ isSetNthMethod(name) \/ isRemoveMethod(name)
          THEN {StrFrom(name, 6)} ELSE {})
  \cup (IF isRemoveAllMethod(name) THEN {StrFrom(name, 9)} ELSE {})
  \cup (IF isGetNumberOfMethod(name) \/ isSetNumberOfMethod(name)
          THEN {StrFrom(name, 11)} ELSE {})
  \cup (IF ~(isGetMethod(name) \/ isSetMethod(name) \/ isAddMethod(name)
             \/ isRemoveMethod(name))
          THEN {name} ELSE {})

\* To followed by an uppercase letter or a digit, As likewise
IsToSomething(suffix) ==
  StartsWith(suffix, sTo) /\ Ch(suffix, 2) \in Upper \cup Digit
IsAsSomething(suffix) ==
  StartsWith(suffix, <<"A","s">>) /\ Ch(suffix, 2) \in Upper \cup Digit

\* the suffixes by kind: On, Off, To... after a setter (a Set method or a
\* method with no prefix), AsString, MinValue, MaxValue after a getter,
\* s after RemoveAll and NumberOf when the property is not a NumberOf one
SuffixByKind(methName, propertyName, suffix) ==
  \/ suffix = << >>
  \/ /\ isSetMethod(methName) \/ methName \in Stripped(methName)
     /\ suffix \in {sOn, sOff} \/ IsToSomething(suffix)
  \/ /\ isGetMethod(methName)
     /\ suffix \in {sAsString, sMinValue, sMaxValue}
  \/ /\ isRemoveAllMethod(methName) \/ IsNumberOfMethod(methName)
     /\ ~StartsWith(propertyName, sNumberOf)
     /\ suffix = <<"s">>

\* C21: a method is folded into a property only if its name with the
\* prefix stripped begins with the property name and what follows is
\* empty or a suffix of its kind: On, Off or To<Upper/digit>... for
\* setters, AsString, MinValue or MaxValue for getters, a single s for
\* RemoveAll and for NumberOf methods when the property name does not
\* start with NumberOf.
C21_SuffixByKind ==
  \A f \in hFolded :
    LET methName == methods[f.method].Name
        propertyName == NameOfProperty(f.property)
    IN \E t \in Stripped(methName) :
         /\ StartsWith(t, propertyName)
         /\ SuffixByKind(methName, propertyName, StrFrom(t, Len(propertyName)))

\* the suffixes the matcher lets through
SuffixLetThrough(methName, propertyName, suffix) ==
  IF suffix \in {sOn, sOff} THEN TRUE
  ELSE IF isSetMethod(methName) /\ IsToSomething(suffix) THEN TRUE
  ELSE IF isGetMethod(methName)
          /\ (IsAsSomething(suffix) \/ suffix \in {sMinValue, sMaxValue})
    THEN TRUE
  ELSE IF isRemoveAllMethod(methName) THEN suffix = <<"s">>
  ELSE IF IsNumberOfMethod(methName)
    THEN (IF StartsWith(propertyName, sNumberOf)
            THEN suffix = << >> ELSE suffix = <<"s">>)
  ELSE suffix = << >>

\* C21, with the suffixes as the matcher tests them: a method is folded
\* into a property only if its name with the prefix stripped begins with
\* the property name and what follows is On or Off (for a method of any
\* kind), To<Upper/digit>... for a Set method, As<Upper/digit>...,
\* MinValue or MaxValue for a Get method, and otherwise exactly s for a
\* RemoveAll method, s or nothing for a NumberOf method as the property
\* name does not or does start with NumberOf, and nothing for any other
\* method; a method with any other text after the property name is not
\* matched.
C21_SuffixAsTested ==
  /\ \A f \in hFolded :
        LET methName == methods[f.method].Name
            propertyName == NameOfProperty(f.property)
        IN \E t \in Stripped(methName) :
             /\ StartsWith(t, propertyName)
             /\ SuffixLetThrough(methName, propertyName,
                                 StrFrom(t, Len(propertyName)))
  /\ pc = "find" =>
        \A k \in Unmatched :
          methodMatchesProperty(property, methods[k]).match =>
            \E t \in Stripped(methods[k].Name) :
               /\ StartsWith(t, property.Name)
               /\ SuffixLetThrough(methods[k].Name, property.Name,
                                   StrFrom(t, Len(property.Name)))

\* C21 witness: a property has taken in a Get method whose name goes on
\* with On or As<Upper>..., and the matcher stops a Get method whose name
\* goes on with s at the suffix test.
C21_Witness ==
  /\ pc = "find"
  /\ \E f \in hFolded :
        /\ f.property = Len(Properties)
        /\ isGetMethod(methods[f.method].Name)
        /\ LET suffix == StrFrom(methods[f.method].Name, 3 + Len(property.Name))
           IN suffix = sOn \/ IsAsSomething(suffix)
  /\ \E k \in Unmatched :
        /\ isGetMethod(methods[k].Name)
        /\ methodMatchesProperty(property, methods[k]).exit = 787

\* the number of methods marked in the matched array
NumberMatched(m) == Cardinality({k \in 1..Len(m) : m[k]})

\* one scan of findAllMatches marks a method that was unmatched or is the
\* last scan, and never unmarks one
ScanMakesProgress ==
  (pc = "find" /\ pc' = "find") =>
    /\ scans' = scans + 1
    /\ \A k \in MethodIds : matchedMethods[k] => matchedMethods'[k]
    /\ foundNoMatches' \/ NumberMatched(matchedMethods') > NumberMatched(matchedMethods)

\* the loop position of a sweep only moves forward, and moves past a seed
\* once its property is stored
SweepMovesForward ==
  /\ (sweep' = sweep /\ pc \in {"sweep", "find"}) => i' >= i
  /\ (pc = "find" /\ pc' = "sweep") => i' = i + 1
  /\ sweep' # sweep => (sweep' = sweep + 1 /\ sweep' <= NumberOfSweeps)

\* a bound on the steps the run has left: one for each method still to
\* extract, then four for each unmatched method, one for each sweep still
\* to end, and two for the scan and the store that close a property
StepsLeft(s) ==
  LET n == Len(s.funcs)
      unmatched == Len(s.methods) - NumberMatched(s.matchedMethods)
  IN
  CASE s.pc = "done" -> 0
    [] s.pc = "extract" -> (n - s.i + 2) + 4 * n + NumberOfSweeps
    [] s.pc = "sweep" -> 4 * unmatched + (NumberOfSweeps - s.sweep) + 1
    [] s.pc = "find" -> 4 * unmatched + (NumberOfSweeps - s.sweep) + 1
                          + (IF s.foundNoMatches THEN 1 ELSE 2)

\* C22: synthesis terminates for every class: every scan of findAllMatches
\* marks a previously unmatched method or is the last one, findAllMatches
\* makes at most N + 1 scans for N methods, a sweep goes over the method
\* positions once, in increasing order, and every step of the run brings
\* it nearer to its end: until the end a step is possible, and each step
\* lowers a bound on the steps left.
C22_Terminates ==
  /\ [](pc = "find" => scans <= NumberOfMethods + 1)
  /\ [](StepsLeft(Rec) >= 0 /\ (Done \/ Step(Rec) # Rec))
  /\ [][/\ ScanMakesProgress
        /\ SweepMovesForward
        /\ Rec' = Step(Rec)
        /\ StepsLeft(Rec') < StepsLeft(Rec)]_vars

\* C22 witness: findAllMatches returns after as many scans as the class
\* has methods, each scan but the last having marked one more method.
C22_Witness ==
  /\ pc = "find" /\ foundNoMatches
  /\ NumberOfMethods >= 3 /\ scans = NumberOfMethods

\* C23: when the run has finished, the method that seeded property p is
\* still mapped to p and has a category, so every property has a method
\* mapped to it.
C23_SeedStaysMapped ==
  Done => \A p \in PropertyIds :
            /\ MethodProperties[SeedOf(p)] = p
            /\ MethodTypes[SeedOf(p)] # {}
            /\ \E k \in MethodIds : MethodProperties[k] = p

\* C24: a method is marked IsRepeat only in favour of an overload that has
\* a property shape: no pair ordered by searchForRepeatedMethods has a
\* winner the extractor rejected.
C24_RepeatOnlyAgainstPropertyShaped ==
  /\ \A r \in hPairs : methods[r.winner].HasProperty
  /\ \A k \in MethodIds :
        methods[k].IsRepeat =>
          \E r \in hPairs : r.loser = k /\ methods[r.winner].HasProperty

\* a method one of the five sweeps takes as a seed when it is unmatched
NamedAsSeed(meth) ==
  \/ isSetMethod(meth.Name) /\ ~meth.IsEnumerated
  \/ isGetMethod(meth.Name) /\ ~isAsStringMethod(meth.Name)
  \/ isAddMethod(meth.Name)

\* C25: when the run has finished, every method that has a property shape,
\* is not marked repeat, and is named as a non-enumerated Set method, a Get
\* method other than GetXAsString, or an Add method, is mapped to a
\* property.
C25_SeedableMethodsAssigned ==
  Done => \A k \in MethodIds :
            (methods[k].HasProperty /\ ~methods[k].IsRepeat
               /\ NamedAsSeed(methods[k])) =>
              MethodProperties[k] >= 0

\* C25 witness: a finished run in which a sweep after the first seeded a
\* property from a method that no earlier property took in.
C25_Witness ==
  /\ Done /\ NumberOfProperties >= 2
  /\ \E p \in PropertyIds :
        /\ p > 0
        /\ SweepOfSeed(methods[SeedOf(p)]) \in {3, 5}
        /\ ~methods[SeedOf(p)].IsRepeat
        /\ MethodProperties[SeedOf(p)] = p

\* the methods with a property shape that extraction did not mark repeat
ShapedAfterExtraction ==
  {k \in MethodIds :
     /\ methods[k].HasProperty
     /\ \A r \in hPairs : ~r.copied => r.loser # k}

\* a method once matched stays matched
MatchedStaysMatched ==
  Len(matchedMethods') = Len(matchedMethods) =>
    \A k \in 1..Len(matchedMethods) : matchedMethods[k] => matchedMethods'[k]

\* a new property is seeded by a method that was unmatched
SeedWasUnmatched ==
  Len(hSeed') # Len(hSeed) =>
    /\ Len(hSeed') = Len(hSeed) + 1
    /\ ~matchedMethods[hSeed'[Len(hSeed')]]
    /\ matchedMethods'[hSeed'[Len(hSeed')]]

\* C26: throughout the build a matched method never becomes unmatched and
\* every property is seeded by a different method, unmatched until then,
\* so the number of properties never exceeds the number of methods that
\* had a property shape and were no repeat after extraction, nor the
\* NumberOfMethods slots of the Properties array.
C26_PropertiesWithinMethods ==
  /\ [][MatchedStaysMatched /\ SeedWasUnmatched]_vars
  /\ [](\A p, q \in 1..Len(hSeed) : p # q => hSeed[p] # hSeed[q])
  /\ [](pc \in {"sweep", "find", "done"} =>
          /\ Len(hSeed) <= Cardinality(ShapedAfterExtraction)
          /\ NumberOfProperties <= Len(hSeed)
          /\ Cardinality(ShapedAfterExtraction) <= NumberOfMethods)

\* C26 witness: a finished run of a class of three methods, one of them
\* rejected or a repeat, in which each of the other two seeded a property.
C26_Witness ==
  /\ Done /\ NumberOfMethods = 3
  /\ Cardinality(ShapedAfterExtraction) = 2
  /\ NumberOfProperties = 2

====
